---- MODULE Spec2Model ----
(***************************************************************************)
(* go-kvbench, cmd/cli/main.go: one benchmark process (main) running the   *)
(* bulk load, the resource samplers, the five time-bounded worker-pool     *)
(* phases and the Record Sink against one store, and a sequence of such    *)
(* processes appending to the same ledger file.                            *)
(* The leveldb and pebble store adapters are modelled on their own, called *)
(* directly on a database holding a set of keys (AdapterSpec).             *)
(*                                                                         *)
(* Time is abstracted: the -d flag is counted in storage operations that   *)
(* fit before the deadline, the deadline may fire at any earlier moment,   *)
(* and the measured wall-clock values are drawn from small sets.           *)
(***************************************************************************)
EXTENDS Integers, Sequences, FiniteSets, TLC

\* ------------------------------------------------------------------ bounds
MaxC == 2
MaxOps == 3
MaxPages == 4
MaxRuns == 2
MaxWrites == 2

\* ------------------------------------------------------- program constants
batchSize == 1000
KeyLen == 9
FirstPrintable == 32
PrintableSpan == 95
MicroPerSec == 1000000
DefaultSize == 256
NanoPerMicro == 1000

\* Measured values the environment may return.
Elapsed == {2500}                 \* time.Since(start) of a phase, ns (>= 1 us)
BulkSeconds == {3}                \* int(time.Since(start).Seconds()) of the bulk load
MemSamples == {<<17, 19>>}        \* <<m.Alloc, m.HeapInuse>> in MiB
DiskSamples == {1060}             \* fileSize in MiB
LeadDraws == {0, PrintableSpan - 1}   \* rand.Intn(127 - 32)

VARIABLES
    flags,      \* the parsed command line: s, fsync, c, setCount, size, duration,
                \* savePath
    pcMain,     \* the statement main is at
    stage,      \* position inside the phase function main is in
    memory,     \* main's local: in-memory variant requested
    path,       \* main's local: storage path
    storeState, \* "nil" | "open" | "closed"
    closeCalls, \* number of store.Close calls of this process
    exitCause,  \* why the process ended: "none" while running
    record,     \* *Record
    pageIdx,    \* testBatchWriteFixCount: loop variable i
    psetLog,    \* the PSet calls the store received: <<#keys, #values, failed,
                \* length of each value>>
    wpc,        \* worker goroutine position
    wi,         \* worker local i
    wcount,     \* worker local count
    counts,     \* the phase's counts slice
    ctxDone,    \* ctx.Done() is closed
    wg,         \* the phase's WaitGroup counter
    oplog,      \* per worker: the logical indices passed to the key generator
    outlog,     \* per worker: what each returned call answered (ok / err == nil)
    agg,        \* the phase function's locals n, d, setCount as read
    wrpc,       \* mixed-phase writer goroutine position
    wri,        \* writer local i
    setCount,   \* testGetSet: var setCount uint64
    wrlog,      \* the logical indices the writer passed to Set
    chClosed,   \* testGetSet: ch is closed
    fileExists, \* the ledger path exists
    ledger,     \* the ledger file: a sequence of CSV lines (sequences of fields)
    saved,      \* number of processes whose Record Sink wrote the ledger
    script,     \* the command lines still to run (the loop of test.sh)
    data,       \* len(data), the package-level payload slice
    setlog,     \* the lengths of the values passed to store.Set
    backend,    \* the adapter under test: "none" | "leveldb" | "pebble"
    db,         \* the keys the adapter's underlying database holds
    call        \* the last call made on the adapter, with what it returned

vars == <<flags, pcMain, stage, memory, path, storeState, closeCalls, exitCause,
          record, pageIdx, psetLog, wpc, wi, wcount, counts, ctxDone, wg, oplog,
          outlog,
          agg, wrpc, wri, setCount, wrlog, chClosed, fileExists,
          ledger, saved, script, data, setlog, backend, db, call>>

procVars == <<wpc, wi, wcount, counts, ctxDone, wg, oplog, outlog>>
writerVars == <<wrpc, wri, setCount, wrlog, chClosed>>
mainVars == <<pcMain, stage, memory, path, storeState, closeCalls, exitCause>>
fileVars == <<fileExists, ledger, saved>>
adapterVars == <<backend, db, call>>
payloadVars == <<data, setlog>>
driverVars == <<flags, mainVars, record, pageIdx, psetLog, procVars, agg, writerVars,
                fileVars, script, payloadVars>>

\* ----------------------------------------------------------------- helpers
RECURSIVE SumSeq(_)
SumSeq(s) == IF s = <<>> THEN 0 ELSE Head(s) + SumSeq(Tail(s))

Workers == 0 .. (flags.c - 1)

\* A slice indexed 0..c-1 read in index order.
AsSeq(f) == [k \in 1 .. flags.c |-> f[k - 1]]

\* strings.HasSuffix / strings.TrimSuffix on the token form of the -s flag.
HasSuffix(s, suffix) == Len(s) > 0 /\ s[Len(s)] = suffix
TrimSuffix(s, suffix) == IF HasSuffix(s, suffix) THEN SubSeq(s, 1, Len(s) - 1) ELSE s

\* ------------------------------------------------------------ key generator
RECURSIVE BigEndian(_, _)
\* the n low-order bytes of the unsigned value i, most significant first
BigEndian(i, n) ==
    IF n = 0 THEN <<>> ELSE Append(BigEndian(i \div 256, n - 1), i % 256)

\* binary.BigEndian.PutUint64
PutUint64(i) == BigEndian(i, 8)

\* genKey(i) with v the value rand.Intn returned
genKey(i, v) == <<FirstPrintable + v>> \o PutUint64(i)

\* the 8-byte index suffix of a generated key
Suffix(key) == SubSeq(key, 2, KeyLen)

\* ------------------------------------------------------------------ getStore
Stores == {"map", "leveldb", "pebble", "pogreb"}
NeedsDisk == {"leveldb", "pebble"}

DefaultPath(s) == <<s, ".db">>

\* result of getStore(s, fsync, path): [ok, path]; opens is the backend's answer
getStore(s, p, opens) ==
    IF Len(s) # 1 \/ s[1] \notin Stores
    THEN [ok |-> FALSE, path |-> p]
    ELSE LET pth == IF p = <<>> THEN DefaultPath(s[1]) ELSE p
         IN  IF s[1] \in NeedsDisk /\ pth = <<":memory:">>
             THEN [ok |-> FALSE, path |-> pth]
             ELSE [ok |-> opens, path |-> pth]

\* the run name of main, lines 63-71
RunName(s, mem, fsync) ==
    s[1] \o (IF mem THEN "/memory" ELSE "")
         \o (IF fsync THEN "/fsync" ELSE "/nofsync")

NoProcs == [w \in {} |-> 0]
NoCall == [op |-> "none"]
NoAgg == [phase |-> "none", n |-> 0, d |-> 0, setCount |-> 0]

\* ----------------------------------------------------------- configurations
Selectors == {<<"map">>, <<"map", "/memory">>, <<"leveldb", "/memory">>,
              <<"pebble", "/memory">>, <<"pogreb">>, <<"bogus">>}

\* Command lines of a single process with several workers and a short deadline.
WideFlags ==
    [s : {<<"map">>}, fsync : {FALSE}, c : 1 .. MaxC,
     setCount : {batchSize}, size : {DefaultSize}, duration : {2},
     savePath : {"ledger.csv"}]

\* Command lines of a single process with two workers and time for three
\* operations: one worker can go through two strides while the other does one.
PairFlags ==
    [s : {<<"map">>}, fsync : {FALSE}, c : {2},
     setCount : {batchSize}, size : {DefaultSize}, duration : {3},
     savePath : {"ledger.csv"}]

\* Command lines of a single process with one worker and a longer deadline.
LongFlags ==
    [s : {<<"map">>}, fsync : {FALSE}, c : {1},
     setCount : {batchSize}, size : {DefaultSize}, duration : {MaxOps},
     savePath : {"ledger.csv"}]

\* Command lines varying the bulk-load count.
BulkFlags ==
    [s : {<<"map">>}, fsync : {FALSE, TRUE}, c : {1},
     setCount : {k * batchSize + r : k \in 0 .. MaxPages, r \in {0, 1}},
     size : {DefaultSize, 2 * DefaultSize},
     duration : {1}, savePath : {""}]

\* Command lines of successive processes sharing one ledger.
LedgerFlags ==
    [s : Selectors, fsync : {FALSE},
     c : {1}, setCount : {batchSize}, size : {DefaultSize}, duration : {1},
     savePath : {"ledger.csv"}]

RECURSIVE SeqsOf(_, _)
SeqsOf(S, n) == IF n = 0 THEN {<<>>}
                ELSE {<<x>> \o r : x \in S, r \in SeqsOf(S, n - 1)}

\* The command lines one invocation of the driver script runs in turn.
Scripts ==
    {<<f>> : f \in WideFlags \cup PairFlags \cup LongFlags \cup BulkFlags}
        \cup SeqsOf(LedgerFlags, MaxRuns)

\* line 32: data = make([]byte, *size) is evaluated when the package is
\* initialised, before main calls flag.Parse: *size is the flag's default
PackageData == DefaultSize

NewRecord == [Name |-> "", Headers |-> <<>>, Values |-> <<>>]

\* The state of a freshly started process running command line f.
Fresh(f) ==
    /\ flags = f
    /\ pcMain = "main"
    /\ stage = "call"
    /\ memory = FALSE
    /\ path = <<>>
    /\ storeState = "nil"
    /\ closeCalls = 0
    /\ exitCause = "none"
    /\ record = NewRecord
    /\ pageIdx = 0
    /\ psetLog = <<>>
    /\ wpc = NoProcs /\ wi = NoProcs /\ wcount = NoProcs /\ counts = NoProcs
    /\ oplog = NoProcs /\ outlog = NoProcs
    /\ ctxDone = FALSE
    /\ wg = 0
    /\ agg = NoAgg
    /\ wrpc = "none" /\ wri = 0 /\ setCount = 0 /\ wrlog = <<>> /\ chClosed = FALSE
    /\ data = PackageData
    /\ setlog = {}

\* The same state as the successor of a step: the next process starts.
Started(f) ==
    /\ flags' = f
    /\ pcMain' = "main"
    /\ stage' = "call"
    /\ memory' = FALSE
    /\ path' = <<>>
    /\ storeState' = "nil"
    /\ closeCalls' = 0
    /\ exitCause' = "none"
    /\ record' = NewRecord
    /\ pageIdx' = 0
    /\ psetLog' = <<>>
    /\ wpc' = NoProcs /\ wi' = NoProcs /\ wcount' = NoProcs /\ counts' = NoProcs
    /\ oplog' = NoProcs /\ outlog' = NoProcs
    /\ ctxDone' = FALSE
    /\ wg' = 0
    /\ agg' = NoAgg
    /\ wrpc' = "none" /\ wri' = 0 /\ setCount' = 0 /\ wrlog' = <<>> /\ chClosed' = FALSE
    /\ data' = PackageData
    /\ setlog' = {}

Init ==
    /\ \E sc \in Scripts : Fresh(Head(sc)) /\ script = Tail(sc)
    /\ fileExists = FALSE
    /\ ledger = <<>>
    /\ saved = 0
    /\ backend = "none"
    /\ db = {}
    /\ call = NoCall

\* ------------------------------------------------------------ process end
\* The goroutines of a process die with it.
KillWriter == wrpc' = IF wrpc \in {"select", "set"} THEN "killed" ELSE wrpc

\* main's deferred calls (lines 58-62): store.Close(), then os.RemoveAll(path).
RunDeferred ==
    /\ storeState' = "closed"
    /\ closeCalls' = closeCalls + 1

\* A panic in main's goroutine unwinds through main's deferred calls.
Panic(cause) ==
    /\ pcMain' = "exited"
    /\ stage' = "call"
    /\ exitCause' = cause
    /\ RunDeferred
    /\ KillWriter

\* main returns.
Return ==
    /\ pcMain' = "exited"
    /\ stage' = "call"
    /\ exitCause' = "done"
    /\ RunDeferred
    /\ KillWriter

\* log.Fatal: os.Exit(1), deferred calls do not run.
Fatal(cause) ==
    /\ pcMain' = "exited"
    /\ stage' = "call"
    /\ exitCause' = cause
    /\ UNCHANGED <<storeState, closeCalls>>
    /\ KillWriter

\* record.Headers = append(..., h); record.Values = append(..., v)
AppendColumn(r, h, v) ==
    [r EXCEPT !.Headers = Append(@, h), !.Values = Append(@, v)]

\* --------------------------------------------------------------------- main
AfterGetStore_ErrorIgnored(ok, s1, mem) ==
    /\ pcMain' = "testBatchWriteFixCount"
    /\ exitCause' = "none"
    /\ record' = [Name |-> RunName(s1, mem, flags.fsync),
                  Headers |-> <<"name">>, Values |-> <<>>]

\* main, lines 55-76: if err != nil { panic(err) }, else the Record is created
AfterGetStore(ok, s1, mem) ==
    IF ~ok
    THEN /\ pcMain' = "exited"
         /\ exitCause' = "openErr"
         /\ UNCHANGED record
    ELSE /\ pcMain' = "testBatchWriteFixCount"
         /\ exitCause' = "none"
         /\ record' = [Name |-> RunName(s1, mem, flags.fsync),
                       Headers |-> <<"name">>, Values |-> <<>>]

\* main, lines 41-76: parse the selector, open the store, create the Record.
MainOpen ==
    /\ pcMain = "main"
    /\ \E opens \in BOOLEAN :
        LET mem == HasSuffix(flags.s, "/memory")
            p0 == IF mem THEN <<":memory:">> ELSE <<>>
            s1 == IF mem THEN TrimSuffix(flags.s, "/memory") ELSE flags.s
            r == getStore(s1, p0, opens)
        IN  /\ flags' = [flags EXCEPT !.s = s1]
            /\ memory' = mem
            /\ path' = r.path
            /\ storeState' = IF r.ok THEN "open" ELSE "nil"
            /\ AfterGetStore(r.ok, s1, mem)
    /\ UNCHANGED <<stage, closeCalls, pageIdx, psetLog, procVars, agg, writerVars,
                   fileVars, script>>
    /\ UNCHANGED <<payloadVars, adapterVars>>

\* ---------------------------------------------------- testBatchWriteFixCount
PageCount_NoRemainderTest(count) == count \div batchSize + 1

\* lines 168-173
PageCount(count) ==
    IF count % batchSize = 0 THEN count \div batchSize ELSE count \div batchSize + 1

\* lines 175-181: the number of entries the inner loop appends to each list
PageLen(i) ==
    LET startIdx == i * batchSize
        endIdx == startIdx + batchSize
    IN  Cardinality(startIdx .. (endIdx - 1))

AfterPSet_ErrorIgnored(err) ==
    /\ pageIdx' = pageIdx + 1
    /\ UNCHANGED <<pcMain, stage, exitCause, storeState, closeCalls, wrpc>>

\* lines 188-192: what follows a PSet call that returned err
AfterPSet(err) ==
    IF err
    THEN /\ Panic("psetErr")
         /\ UNCHANGED pageIdx
    ELSE /\ pageIdx' = pageIdx + 1
         /\ UNCHANGED <<pcMain, stage, exitCause, storeState, closeCalls, wrpc>>

\* one iteration of the page loop, lines 174-194
BulkPage ==
    /\ pcMain = "testBatchWriteFixCount"
    /\ pageIdx < PageCount(flags.setCount)
    /\ \E err \in BOOLEAN :
        /\ psetLog' = Append(psetLog, <<PageLen(pageIdx), PageLen(pageIdx), err,
                                         flags.size>>)
        /\ AfterPSet(err)
    /\ UNCHANGED <<flags, memory, path, record, procVars, agg, wri, setCount,
                   wrlog, chClosed, fileVars, script>>
    /\ UNCHANGED <<payloadVars, adapterVars>>

\* lines 195-197: the loop is over, the cost column is appended
BulkDone ==
    /\ pcMain = "testBatchWriteFixCount"
    /\ pageIdx >= PageCount(flags.setCount)
    /\ \E secs \in BulkSeconds :
        record' = AppendColumn(record, "batch write cost(s)", secs)
    /\ pcMain' = "showMemUsage"
    /\ UNCHANGED <<flags, stage, memory, path, storeState, closeCalls, exitCause,
                   pageIdx, psetLog, procVars, agg, writerVars, fileVars, script>>
    /\ UNCHANGED <<payloadVars, adapterVars>>

\* ----------------------------------------------------------------- samplers
\* lines 88-102
showMemUsage ==
    /\ pcMain = "showMemUsage"
    /\ \E m \in MemSamples :
        record' = AppendColumn(AppendColumn(record, "MemUsage(MiB)", m[1]),
                               "HeapInuse(MiB)", m[2])
    /\ pcMain' = "showDiskUsage"
    /\ UNCHANGED <<flags, stage, memory, path, storeState, closeCalls, exitCause,
                   pageIdx, psetLog, procVars, agg, writerVars, fileVars, script>>
    /\ UNCHANGED <<payloadVars, adapterVars>>

\* os.IsNotExist(err) of os.Stat(path): the in-memory variants leave no file
StatNotExist(p) == p = <<":memory:">>

DiskColumn_HeaderBeforeStat(r, p, fileSize) ==
    IF StatNotExist(p)
    THEN [r EXCEPT !.Headers = Append(@, "DiskUsage(MiB)")]
    ELSE AppendColumn(r, "DiskUsage(MiB)", fileSize)

\* lines 104-118: the Record after showDiskUsage measured fileSize
DiskColumn(r, p, fileSize) ==
    IF StatNotExist(p) THEN r ELSE AppendColumn(r, "DiskUsage(MiB)", fileSize)

showDiskUsage ==
    /\ pcMain = "showDiskUsage"
    /\ \E sz \in DiskSamples : record' = DiskColumn(record, path, sz)
    /\ pcMain' = "testKeys"
    /\ UNCHANGED <<flags, stage, memory, path, storeState, closeCalls, exitCause,
                   pageIdx, psetLog, procVars, agg, writerVars, fileVars, script>>
    /\ UNCHANGED <<payloadVars, adapterVars>>

\* ------------------------------------------------------ worker-pool phases
PoolKinds == {"testKeys", "testSet", "testGet", "testDelete"}
PhaseKinds == PoolKinds \cup {"testGetSet"}

\* main, lines 80-85: the statement after each phase
NextPhase(kind) ==
    CASE kind = "testKeys" -> "testSet"
      [] kind = "testSet" -> "testGet"
      [] kind = "testGet" -> "testGetSet"
      [] kind = "testGetSet" -> "testDelete"
      [] kind = "testDelete" -> "saveReorder"

Header(kind) ==
    CASE kind = "testKeys" -> "Keys op/s"
      [] kind = "testSet" -> "Set op/s"
      [] kind = "testGet" -> "Get op/s"
      [] kind = "testGetSet" -> "Getmixed op/s"
      [] kind = "testDelete" -> "Del op/s"

\* genKeyPrefix(i) with v, r the values rand returned: i is not used
genKeyPrefix(i, v, r) == <<FirstPrintable + v, r[2], r[3]>>

\* README, lines 643 and 664: pogreb has no prefix query
KeysNotSupported(s) == s[1] \in {"pogreb"}

\* storage operations the workers of the running phase have issued
Issued == SumSeq([k \in 1 .. flags.c |-> Len(oplog[k - 1])])

\* for j := 0; j < *c; j++ { index := uint64(j); go func() {...}() }
Spawn ==
    /\ wpc' = [w \in Workers |-> "select"]
    /\ wi' = [w \in Workers |-> w]
    /\ wcount' = [w \in Workers |-> 0]
    /\ counts' = [w \in Workers |-> 0]
    /\ oplog' = [w \in Workers |-> <<>>]
    /\ outlog' = [w \in Workers |-> <<>>]
    /\ ctxDone' = FALSE
    /\ wg' = flags.c
    /\ agg' = NoAgg
    /\ stage' = "run"

\* testKeys, lines 247-253: the probe, then the pool
testKeysProbe ==
    /\ pcMain = "testKeys"
    /\ stage = "call"
    /\ IF KeysNotSupported(flags.s)
       THEN /\ record' = AppendColumn(record, "Keys op/s", -1)
            /\ pcMain' = "testSet"
            /\ UNCHANGED <<stage, procVars, agg>>
       ELSE /\ Spawn
            /\ UNCHANGED <<pcMain, record>>
    /\ UNCHANGED <<flags, memory, path, storeState, closeCalls, exitCause, pageIdx,
                   psetLog, writerVars, fileVars, script>>
    /\ UNCHANGED <<payloadVars, adapterVars>>

\* testSet, testGet, testDelete: entry up to the spawn loop
PhaseStart(kind) ==
    /\ kind \in {"testSet", "testGet", "testDelete"}
    /\ pcMain = kind
    /\ stage = "call"
    /\ Spawn
    /\ UNCHANGED <<flags, pcMain, memory, path, storeState, closeCalls, exitCause,
                   record, pageIdx, psetLog, writerVars, fileVars, script>>
    /\ UNCHANGED <<payloadVars, adapterVars>>

\* testGetSet, lines 299-344: the writer goroutine, then the readers
GetSetStart ==
    /\ pcMain = "testGetSet"
    /\ stage = "call"
    /\ wrpc' = "select" /\ wri' = 0 /\ setCount' = 0 /\ wrlog' = <<>>
    /\ chClosed' = FALSE
    /\ Spawn
    /\ UNCHANGED <<flags, pcMain, memory, path, storeState, closeCalls, exitCause,
                   record, pageIdx, psetLog, fileVars, script>>
    /\ UNCHANGED <<payloadVars, adapterVars>>

\* the context's timer fires
Deadline ==
    /\ stage = "run"
    /\ ~ctxDone
    /\ ctxDone' = TRUE
    /\ UNCHANGED <<flags, mainVars, record, pageIdx, psetLog, wpc, wi, wcount, counts,
                   wg, oplog, outlog, agg, writerVars, fileVars, script>>
    /\ UNCHANGED <<payloadVars, adapterVars>>

\* what a storage call may answer: ok of Get, err == nil of Keys; Set and Del
\* are taken to succeed
Outcomes(kind) ==
    IF kind \in {"testGet", "testKeys", "testGetSet"} THEN BOOLEAN ELSE {TRUE}

Advance_ResetToZero(kind, i, index, c, good) ==
    IF kind \in {"testGet", "testKeys"}
    THEN (IF good THEN i ELSE 0) + c
    ELSE i + c

Advance_StrideOne(kind, i, index, c, good) ==
    IF kind \in {"testGet", "testKeys"}
    THEN (IF good THEN i ELSE index) + 1
    ELSE i + 1

\* the worker's i after one operation: good is ok (Get) or err == nil (Keys)
Advance(kind, i, index, c, good) ==
    IF kind \in {"testGet", "testKeys"}
    THEN (IF good THEN i ELSE index) + c
    ELSE i + c

StoreCount_SharedSlot(cs, index, count) == [cs EXCEPT ![0] = count]

\* counts[index] = count
StoreCount(cs, index, count) == [cs EXCEPT ![index] = count]

\* select { case <-ctx.Done(): break LOOP, counts[index] = count, wg.Done()
\*          default: the storage call is issued }
WorkerSelect(w) ==
    /\ stage = "run"
    /\ w \in DOMAIN wpc
    /\ wpc[w] = "select"
    /\ IF ctxDone
       THEN /\ wpc' = [wpc EXCEPT ![w] = "done"]
            /\ counts' = StoreCount(counts, w, wcount[w])
            /\ wg' = wg - 1
            /\ UNCHANGED <<oplog, setlog>>
       ELSE /\ Issued < flags.duration
            /\ wpc' = [wpc EXCEPT ![w] = "op"]
            /\ oplog' = [oplog EXCEPT ![w] = Append(@, wi[w])]
            /\ setlog' = IF pcMain = "testSet" THEN setlog \cup {data} ELSE setlog
            /\ UNCHANGED <<counts, wg>>
    /\ UNCHANGED <<flags, mainVars, record, pageIdx, psetLog, wi, wcount, ctxDone,
                   outlog, agg, writerVars, fileVars, script>>
    /\ UNCHANGED <<data, adapterVars>>

\* the storage call returns; i and count are updated
WorkerOp(w) ==
    /\ stage = "run"
    /\ w \in DOMAIN wpc
    /\ wpc[w] = "op"
    /\ \E good \in Outcomes(pcMain) :
        /\ wi' = [wi EXCEPT ![w] = Advance(pcMain, wi[w], w, flags.c, good)]
        /\ outlog' = [outlog EXCEPT ![w] = Append(@, good)]
    /\ wcount' = [wcount EXCEPT ![w] = @ + 1]
    /\ wpc' = [wpc EXCEPT ![w] = "select"]
    /\ UNCHANGED <<flags, mainVars, record, pageIdx, psetLog, counts, ctxDone, wg,
                   oplog, agg, writerVars, fileVars, script>>
    /\ UNCHANGED <<payloadVars, adapterVars>>

\* for _, count := range counts { n += count }
Total(cs) == SumSeq(AsSeq(cs))

Rate_NanosAsMicros(n, d) == (n * MicroPerSec) \div d

\* int(int64(n)*1e6/(d/1e3))
Rate(n, d) == (n * MicroPerSec) \div (d \div NanoPerMicro)

\* the Printf arguments int64(n)*1e6/(d/1e3) and d/int64((n)*(*c)) divide by zero
DivByZero(n, d, c) == (d \div NanoPerMicro = 0) \/ (n * c = 0)

\* wg.Wait() returned: lines 233-242, 285-294, 395-404, 436-446
Aggregate(kind) ==
    /\ kind \in PoolKinds
    /\ pcMain = kind
    /\ stage = "run"
    /\ wg = 0
    /\ \E d \in Elapsed :
        LET n == Total(counts)
        IN  /\ agg' = [phase |-> kind, n |-> n, d |-> d, setCount |-> 0]
            /\ IF DivByZero(n, d, flags.c)
               THEN /\ Panic("divZero")
                    /\ UNCHANGED record
               ELSE /\ record' = AppendColumn(record, Header(kind), Rate(n, d))
                    /\ pcMain' = NextPhase(kind)
                    /\ stage' = "call"
                    /\ UNCHANGED <<storeState, closeCalls, exitCause, wrpc>>
    /\ UNCHANGED <<flags, memory, path, pageIdx, psetLog, procVars, wri, setCount,
                   wrlog, chClosed, fileVars, script>>
    /\ UNCHANGED <<payloadVars, adapterVars>>

\* ------------------------------------------------------ mixed-phase writer
WriterStops_OnDeadline(closed, done) == closed \/ done

\* lines 309-310: case <-ch: return
WriterStops(closed, done) == closed

\* lines 308-312: select { case <-ch: return; default: store.Set is issued }
WriterSelect ==
    /\ wrpc = "select"
    /\ IF WriterStops(chClosed, ctxDone)
       THEN /\ wrpc' = "exited"
            /\ UNCHANGED <<wrlog, setlog>>
       ELSE /\ wri < MaxWrites
            /\ wrpc' = "set"
            /\ wrlog' = Append(wrlog, wri)
            /\ setlog' = setlog \cup {data}
    /\ UNCHANGED <<flags, mainVars, record, pageIdx, psetLog, procVars, agg, wri,
                   setCount, chClosed, fileVars, script>>
    /\ UNCHANGED <<data, adapterVars>>

WriterAdvance_IndexStuck(i) == i

\* line 315: i++
WriterAdvance(i) == i + 1

\* lines 313-315: store.Set returns; setCount++; i++
WriterSet ==
    /\ wrpc = "set"
    /\ setCount' = setCount + 1
    /\ wri' = WriterAdvance(wri)
    /\ wrpc' = "select"
    /\ UNCHANGED <<flags, mainVars, record, pageIdx, psetLog, procVars, agg, wrlog,
                   chClosed, fileVars, script>>
    /\ UNCHANGED <<payloadVars, adapterVars>>

\* lines 345-347: wg.Wait() returned; close(ch); dur := time.Since(start)
GetSetJoin ==
    /\ pcMain = "testGetSet"
    /\ stage = "run"
    /\ wg = 0
    /\ chClosed' = TRUE
    /\ \E d \in Elapsed :
        agg' = [phase |-> "testGetSet", n |-> Total(counts), d |-> d, setCount |-> 0]
    /\ stage' = "closed"
    /\ UNCHANGED <<flags, pcMain, memory, path, storeState, closeCalls, exitCause,
                   record, pageIdx, psetLog, procVars, wrpc, wri, setCount, wrlog,
                   fileVars, script>>
    /\ UNCHANGED <<payloadVars, adapterVars>>

\* lines 353-354: the Setmixed header is appended, setCount is compared with 0
GetSetBranch ==
    /\ pcMain = "testGetSet"
    /\ stage = "closed"
    /\ record' = [record EXCEPT !.Headers = Append(@, "Setmixed op/s")]
    /\ stage' = IF setCount = 0 THEN "rec0" ELSE "recN"
    /\ UNCHANGED <<flags, pcMain, memory, path, storeState, closeCalls, exitCause,
                   pageIdx, psetLog, procVars, agg, writerVars, fileVars, script>>
    /\ UNCHANGED <<payloadVars, adapterVars>>

\* lines 355-363: the Setmixed value (setCount is read again), then Getmixed
GetSetRecord ==
    /\ pcMain = "testGetSet"
    /\ stage \in {"rec0", "recN"}
    /\ agg' = [agg EXCEPT !.setCount = setCount]
    /\ IF stage = "recN" /\ agg.d \div NanoPerMicro = 0
       THEN /\ Panic("divZero")
            /\ UNCHANGED record
       ELSE LET v == IF stage = "rec0" THEN -1 ELSE Rate(setCount, agg.d)
                r1 == [record EXCEPT !.Values = Append(@, v)]
            IN  IF DivByZero(agg.n, agg.d, flags.c)
                THEN /\ record' = r1
                     /\ Panic("divZero")
                ELSE /\ record' = AppendColumn(r1, Header("testGetSet"),
                                               Rate(agg.n, agg.d))
                     /\ pcMain' = NextPhase("testGetSet")
                     /\ stage' = "call"
                     /\ UNCHANGED <<storeState, closeCalls, exitCause, wrpc>>
    /\ UNCHANGED <<flags, memory, path, pageIdx, psetLog, procVars, wri, setCount,
                   wrlog, chClosed, fileVars, script>>
    /\ UNCHANGED <<payloadVars, adapterVars>>

\* -------------------------------------------------------------- Record Sink
\* lines 554-558: the value row, record.Name first, each value through strconv.Itoa
Row(r) == <<r.Name>> \o [k \in 1 .. Len(r.Values) |-> ToString(r.Values[k])]

SinkWrite_HeaderAlways(exists, file, r) == file \o <<r.Headers, Row(r)>>

\* lines 559-584: the file after a successful write
SinkWrite(exists, file, r) ==
    IF ~exists THEN <<r.Headers, Row(r)>> ELSE file \o <<Row(r)>>

\* saveReorder, lines 550-585, and main's return
saveReorder ==
    /\ pcMain = "saveReorder"
    /\ IF flags.savePath = ""
       THEN /\ Return
            /\ UNCHANGED fileVars
       ELSE \E opened \in BOOLEAN :
            IF ~opened
            THEN /\ Fatal("sinkErr")
                 /\ UNCHANGED fileVars
            ELSE /\ ledger' = SinkWrite(fileExists, ledger, record)
                 /\ fileExists' = TRUE
                 /\ saved' = saved + 1
                 /\ Return
    /\ UNCHANGED <<flags, memory, path, record, pageIdx, psetLog, procVars, agg,
                   wri, setCount, wrlog, chClosed, script>>
    /\ UNCHANGED <<payloadVars, adapterVars>>

\* test.sh, lines 17-21: the next store is benchmarked into the same ledger
NextRun ==
    /\ pcMain = "exited"
    /\ script # <<>>
    /\ Started(Head(script))
    /\ script' = Tail(script)
    /\ UNCHANGED fileVars
    /\ UNCHANGED adapterVars

Next ==
    \/ MainOpen
    \/ BulkPage
    \/ BulkDone
    \/ showMemUsage
    \/ showDiskUsage
    \/ testKeysProbe
    \/ \E kind \in PoolKinds : PhaseStart(kind)
    \/ GetSetStart
    \/ Deadline
    \/ \E w \in 0 .. (MaxC - 1) : WorkerSelect(w)
    \/ \E w \in 0 .. (MaxC - 1) : WorkerOp(w)
    \/ \E kind \in PoolKinds : Aggregate(kind)
    \/ WriterSelect
    \/ WriterSet
    \/ GetSetJoin
    \/ GetSetBranch
    \/ GetSetRecord
    \/ saveReorder
    \/ NextRun

Spec == Init /\ [][Next]_vars

\* the steps of main's own goroutine
MainStep ==
    \/ MainOpen \/ BulkPage \/ BulkDone \/ showMemUsage \/ showDiskUsage
    \/ testKeysProbe \/ GetSetStart \/ GetSetJoin \/ GetSetBranch \/ GetSetRecord
    \/ saveReorder
    \/ \E kind \in PoolKinds : PhaseStart(kind) \/ Aggregate(kind)

\* Every storage call returns and the Go scheduler runs every runnable
\* goroutine: main, each worker and the writer keep taking their steps, and the
\* context's timer fires.
FairSpec ==
    /\ Spec
    /\ WF_vars(MainStep)
    /\ WF_vars(Deadline)
    /\ \A w \in 0 .. (MaxC - 1) : WF_vars(WorkerSelect(w) \/ WorkerOp(w))
    /\ WF_vars(WriterSelect \/ WriterSet)
    /\ WF_vars(NextRun)

\* ----------------------------------------------------------- store adapters
\* The leveldb and pebble adapters, called directly on a database holding a
\* set of keys: Set, Del, Get and Keys.
FooPrefix == <<102, 111, 111, 45>>                       \* "foo-"
MyPrefix == <<109, 121, 112, 114, 101, 102, 105, 120>>   \* "myprefix"

\* keys and patterns the adapters are called with
AdapterKeys ==
    {FooPrefix \o <<49>>, MyPrefix \o <<49>>, MyPrefix \o <<255>>,
     <<97, 49>>, <<97, 98>>}
AdapterPatterns == {<<>>, <<97>>, FooPrefix, MyPrefix}
AdapterBackends == {"leveldb", "pebble"}

\* bytes.HasPrefix
HasPrefix(k, p) == Len(k) >= Len(p) /\ SubSeq(k, 1, Len(p)) = p

RECURSIVE LexLess(_, _)
\* bytes.Compare(a, b) < 0
LexLess(a, b) ==
    IF b = <<>> THEN FALSE
    ELSE IF a = <<>> THEN TRUE
    ELSE IF Head(a) # Head(b) THEN Head(a) < Head(b)
    ELSE LexLess(Tail(a), Tail(b))

RECURSIVE BytesPrefixLimit(_)
\* util.BytesPrefix: the prefix up to its last byte below 0xff, that byte plus
\* one; <<>> (no limit) when there is no such byte
BytesPrefixLimit(p) ==
    IF p = <<>> THEN <<>>
    ELSE IF p[Len(p)] < 255
         THEN SubSeq(p, 1, Len(p) - 1) \o <<p[Len(p)] + 1>>
         ELSE BytesPrefixLimit(SubSeq(p, 1, Len(p) - 1))

\* the keys of d an iterator over [lower, upper) visits; upper <<>> is no bound
IterRange(d, lower, upper) ==
    {k \in d : ~LexLess(k, lower) /\ (upper = <<>> \/ LexLess(k, upper))}

\* what the database library answers to Get(key)
LibGet(d, key, ioErr) ==
    IF ioErr THEN "io" ELSE IF key \in d THEN "nil" ELSE "ErrNotFound"

\* leveldbStore.Get
leveldbGet(d, key, ioErr) ==
    LET err == LibGet(d, key, ioErr)
    IN  IF err # "nil"
        THEN IF err = "ErrNotFound"
             THEN [found |-> FALSE, err |-> "nil"]
             ELSE [found |-> FALSE, err |-> err]
        ELSE [found |-> TRUE, err |-> "nil"]

\* pebbleStore.Get
pebbleGet(d, key, ioErr) ==
    LET err == LibGet(d, key, ioErr)
    IN  IF err # "nil"
        THEN [found |-> FALSE, err |-> err]
        ELSE [found |-> TRUE, err |-> err]

\* leveldbStore.Keys: the iterator is built from the literal "foo-"
leveldbKeys(d, pattern) ==
    [keys |-> IterRange(d, FooPrefix, BytesPrefixLimit(FooPrefix)), err |-> "nil"]

\* pebbleStore.Keys: the bounds are built from the literal "myprefix"
pebbleKeys(d, pattern) ==
    [keys |-> IterRange(d, MyPrefix, MyPrefix \o <<255>>), err |-> "nil"]

\* leveldbStore.Del: Has, then Delete
leveldbDel(d, key) == [ok |-> key \in d, db |-> d \ {key}]

\* pebbleStore.Del: Delete; err == nil
pebbleDel(d, key) == [ok |-> TRUE, db |-> d \ {key}]

AdapterGet(b, d, key, ioErr) ==
    IF b = "leveldb" THEN leveldbGet(d, key, ioErr) ELSE pebbleGet(d, key, ioErr)
AdapterKeysOf(b, d, pattern) ==
    IF b = "leveldb" THEN leveldbKeys(d, pattern) ELSE pebbleKeys(d, pattern)
AdapterDel(b, d, key) ==
    IF b = "leveldb" THEN leveldbDel(d, key) ELSE pebbleDel(d, key)

\* the driver of an adapter session does not run
AdapterFlags(b) ==
    [s |-> <<b>>, fsync |-> FALSE, c |-> 1, setCount |-> 0, size |-> DefaultSize,
     duration |-> 1,
     savePath |-> ""]

AdapterInit ==
    /\ backend \in AdapterBackends
    /\ db = {}
    /\ call = NoCall
    /\ Fresh(AdapterFlags(backend))
    /\ script = <<>>
    /\ fileExists = FALSE
    /\ ledger = <<>>
    /\ saved = 0

\* store.Set(key, value)
StoreSet(key) ==
    /\ db' = db \cup {key}
    /\ call' = [op |-> "Set", key |-> key, err |-> "nil"]
    /\ UNCHANGED <<backend, driverVars>>

\* store.Del(key)
StoreDel(key) ==
    LET r == AdapterDel(backend, db, key)
    IN  /\ db' = r.db
        /\ call' = [op |-> "Del", key |-> key, ok |-> r.ok, err |-> "nil"]
        /\ UNCHANGED <<backend, driverVars>>

\* store.Get(key)
StoreGet(key) ==
    /\ \E ioErr \in BOOLEAN :
        LET r == AdapterGet(backend, db, key, ioErr)
        IN  call' = [op |-> "Get", key |-> key, ioErr |-> ioErr,
                     found |-> r.found, err |-> r.err]
    /\ UNCHANGED <<backend, db, driverVars>>

\* store.Keys(pattern, limit, withvalues)
StoreKeys(pattern) ==
    /\ LET r == AdapterKeysOf(backend, db, pattern)
       IN  call' = [op |-> "Keys", pattern |-> pattern, keys |-> r.keys,
                    err |-> r.err]
    /\ UNCHANGED <<backend, db, driverVars>>

AdapterNext ==
    \/ \E key \in AdapterKeys : StoreSet(key)
    \/ \E key \in AdapterKeys : StoreDel(key)
    \/ \E key \in AdapterKeys : StoreGet(key)
    \/ \E pattern \in AdapterPatterns : StoreKeys(pattern)

AdapterSpec == AdapterInit /\ [][AdapterNext]_vars

\* =================================================================== claims
WriterRunning == wrpc \in {"select", "set"}

\* the logical indices worker w targeted in the running or last phase
Targets(w) == {oplog[w][k] : k \in 1 .. Len(oplog[w])}

\* the 8-byte suffixes of the keys worker w generated, whatever the leading byte
SuffixesOf(w) ==
    {Suffix(genKey(oplog[w][k], v)) : k \in 1 .. Len(oplog[w]), v \in LeadDraws}

\* the phase whose workers wrote oplog
LogPhase == IF stage \in {"run", "closed", "rec0", "recN"} THEN pcMain ELSE agg.phase

\* phases whose workers build their keys with genKey
GenKeyPhase == LogPhase \in {"testSet", "testGet", "testGetSet", "testDelete"}

\* C1: once a phase has aggregated, the n it uses in the throughput formula is
\* the number of storage operations its workers attempted, summed over the
\* workers: every attempt is counted once.
C1_TotalIsSumOfAttempts ==
    agg.phase # "none" => agg.n = Issued

C1_Witness ==
    /\ agg.phase = "testGet"
    /\ flags.c = 2
    /\ agg.n = 3
    /\ \A w \in DOMAIN oplog : oplog[w] # <<>>

\* C2: whenever the driver is at the statements that read the task counters
\* (after wg.Wait, and in testGetSet at the reads of setCount), every task the
\* phase spawned has exited, the mixed-phase writer included.
C2_CountersReadAfterExit ==
    /\ agg.phase # "none" => \A w \in DOMAIN wpc : wpc[w] = "done"
    /\ (pcMain = "testGetSet" /\ stage \in {"closed", "rec0", "recN"})
          => ~WriterRunning

\* C3: while a phase is running its workers, no task spawned by an earlier
\* phase is still running or has a storage operation in flight.
C3_PhasesNeverOverlap ==
    (stage = "run" /\ pcMain # "testGetSet") => ~WriterRunning

\* C4: worker w of c only targets logical indices w, w+c, w+2c, ..., also
\* after a reset, so two workers of a phase never target the same index.
C4_StridePartition ==
    /\ \A w \in DOMAIN oplog : \A i \in Targets(w) : i >= w /\ i % flags.c = w
    /\ \A w1, w2 \in DOMAIN oplog : w1 # w2 => Targets(w1) \cap Targets(w2) = {}

C4_Witness ==
    /\ pcMain = "testGet"
    /\ flags.c = 2
    /\ oplog[1] = <<1, 3, 3>>

\* C5 as stated: in every phase, any two distinct (worker, step) pairs carry
\* distinct 8-byte index suffixes: there are as many suffixes as steps.
C5_AllStepsDistinct ==
    GenKeyPhase => Cardinality(UNION {SuffixesOf(w) : w \in DOMAIN oplog}) = Issued

\* C5 amended: steps of different workers always carry distinct suffixes (there
\* are as many suffixes as indices targeted, counted per worker), and distinct
\* steps of one worker target distinct indices in the phases that never reset
\* the index (point set, delete, mixed readers); point get re-targets after a
\* miss.
C5_DistinctAcrossWorkers ==
    GenKeyPhase =>
        /\ Cardinality(UNION {SuffixesOf(w) : w \in DOMAIN oplog})
              = SumSeq([k \in 1 .. flags.c |-> Cardinality(Targets(k - 1))])
        /\ LogPhase # "testGet" =>
              \A w \in DOMAIN oplog : Cardinality(Targets(w)) = Len(oplog[w])

C5_Witness ==
    /\ pcMain = "testSet"
    /\ flags.c = 2
    /\ oplog[0] = <<0, 2>>
    /\ oplog[1] = <<1>>

\* the bulk load ran to its end (its cost column is in the Record)
BulkCompleted ==
    Len(record.Headers) >= 2 /\ record.Headers[2] = "batch write cost(s)"

PSetFailed == \E k \in 1 .. Len(psetLog) : psetLog[k][3]

HasColumn(h) == \E k \in 1 .. Len(record.Headers) : record.Headers[k] = h

\* C6: the PSet calls come one after the other from main, one per page; each
\* carries 1000 keys and 1000 values; a completed bulk load of N = 1000 * k
\* entries issued exactly k calls.
C6_BulkLoadPages ==
    /\ \A k \in 1 .. Len(psetLog) : psetLog[k][1] = 1000 /\ psetLog[k][2] = 1000
    /\ (pcMain = "testBatchWriteFixCount") => Len(psetLog) = pageIdx
    /\ (BulkCompleted /\ flags.setCount % 1000 = 0)
          => Len(psetLog) * 1000 = flags.setCount

C6_Witness ==
    /\ BulkCompleted
    /\ flags.setCount = 4000
    /\ Len(psetLog) = 4

\* C7: once a PSet call has failed the process is over: that call was the
\* last one, no sampler or phase ran, the Record has no column, and the ledger
\* is written only by a step that ends a run normally.
C7_BulkFailureAborts ==
    /\ [](PSetFailed =>
            /\ pcMain = "exited"
            /\ exitCause = "psetErr"
            /\ psetLog[Len(psetLog)][3]
            /\ \A k \in 1 .. Len(psetLog) - 1 : ~psetLog[k][3]
            /\ record.Headers = <<"name">>
            /\ record.Values = <<>>
            /\ oplog = NoProcs
            /\ wrlog = <<>>
            /\ agg = NoAgg)
    /\ [][(ledger' # ledger \/ fileExists' # fileExists)
            => (exitCause' = "done" /\ ~PSetFailed')]_vars

C7_Witness ==
    /\ PSetFailed
    /\ Len(psetLog) = 2
    /\ flags.setCount = 4000

\* C8: when the probe of testKeys answers NotSupported, the Keys column is
\* exactly -1, no scan worker ran, and the process goes on through every later
\* phase: when it ends, the Record holds the columns of all of them.
C8_SentinelAndRunContinues ==
    (KeysNotSupported(flags.s) /\ HasColumn("Keys op/s")) =>
        /\ \A k \in 2 .. Len(record.Headers) :
              (record.Headers[k] = "Keys op/s" /\ k - 1 <= Len(record.Values))
                  => record.Values[k - 1] = -1
        /\ LogPhase # "testKeys"
        /\ pcMain = "exited" =>
              /\ HasColumn("Set op/s")
              /\ HasColumn("Get op/s")
              /\ HasColumn("Setmixed op/s")
              /\ HasColumn("Getmixed op/s")
              /\ HasColumn("Del op/s")

IsHeaderLine(line) == line[1] = "name"

\* C9: the ledger holds one header line, first, and one value row per process
\* that saved; a save to a missing path writes header and row, a later save
\* appends one row, and lines once written never change.
C9_LedgerGrowsByOneRow ==
    /\ [](IF fileExists
          THEN /\ Len(ledger) = saved + 1
               /\ IsHeaderLine(ledger[1])
               /\ \A k \in 2 .. Len(ledger) : ~IsHeaderLine(ledger[k])
          ELSE ledger = <<>> /\ saved = 0)
    /\ [][\/ ledger' = ledger
          \/ /\ ~fileExists
             /\ Len(ledger') = 2
             /\ ledger'[2][1] = record.Name
          \/ /\ fileExists
             /\ Len(ledger') = Len(ledger) + 1
             /\ SubSeq(ledger', 1, Len(ledger)) = ledger
             /\ ledger'[Len(ledger')][1] = record.Name]_vars

C9_Witness ==
    /\ saved = 2
    /\ Len(ledger) = 3
    /\ pcMain = "exited"

\* C10 as stated: Headers and Values of the Record have the same length.
C10_SameLength == Len(record.Headers) = Len(record.Values)

\* C10 amended: once the Record is created, Headers is exactly one longer
\* than Values (the "name" header has no entry in Values), except between the
\* two appends of the Setmixed column, where it is two longer.
C10_HeadersOneAhead ==
    pcMain # "main" /\ record.Headers # <<>> =>
        Len(record.Headers) =
            Len(record.Values) + (IF stage \in {"rec0", "recN"} THEN 2 ELSE 1)

C10_Witness ==
    /\ pcMain = "saveReorder"
    /\ memory
    /\ Len(record.Headers) = 10
    /\ Len(record.Values) = 9

\* the column names of a full run, in the documented order
FullHeader ==
    <<"name", "batch write cost(s)", "MemUsage(MiB)", "HeapInuse(MiB)",
      "DiskUsage(MiB)", "Keys op/s", "Set op/s", "Get op/s", "Setmixed op/s",
      "Getmixed op/s", "Del op/s">>

\* C11: the ledger's header row names the columns of a full run in the
\* documented order, and every value row has as many fields as the header row,
\* whatever the backend and whether the run was on disk or in memory.
C11_RowsAlignedWithHeader ==
    fileExists =>
        /\ ledger[1] = FullHeader
        /\ \A k \in 2 .. Len(ledger) : Len(ledger[k]) = Len(ledger[1])

\* C12: a process that opened its store and has ended called Close on it
\* exactly once, whatever ended it; a running process has not closed it yet.
C12_ClosedExactlyOnce ==
    /\ (pcMain = "exited" /\ exitCause # "openErr") => closeCalls = 1
    /\ pcMain # "exited" => closeCalls = 0

\* getStore returned no store: main is past the call and holds a nil store
ConstructionFailed == pcMain # "main" /\ storeState = "nil"

\* C13: a process whose store could not be constructed ends at once: it issued
\* no storage operation, ran no sampler or phase, created no Record, and the
\* step that ends it leaves the ledger as it was.
C13_ConstructionErrorAborts ==
    /\ [](ConstructionFailed =>
            /\ pcMain = "exited"
            /\ exitCause = "openErr"
            /\ closeCalls = 0
            /\ psetLog = <<>>
            /\ oplog = NoProcs
            /\ wrlog = <<>>
            /\ agg = NoAgg
            /\ record = NewRecord)
    /\ [][ConstructionFailed' =>
            /\ pcMain \in {"main", "exited"}
            /\ ledger' = ledger
            /\ fileExists' = fileExists
            /\ saved' = saved]_vars

C13_Witness ==
    /\ exitCause = "openErr"
    /\ flags.s = <<"leveldb">>
    /\ memory
    /\ saved = 1
    /\ Len(ledger) = 2

\* the value recorded under header h (Values has no entry for "name")
ColumnValue(h) ==
    LET k == CHOOSE j \in 1 .. Len(record.Headers) : record.Headers[j] = h
    IN  record.Values[k - 1]

Recorded(h) ==
    \E k \in 2 .. Len(record.Headers) :
        record.Headers[k] = h /\ k - 1 <= Len(record.Values)

\* the sum of the local counters of the workers of the last phase
LocalCounts == SumSeq([k \in 1 .. flags.c |-> wcount[k - 1]])

\* n operations in d nanoseconds, as operations per second
OpsPerSecond(n, d) == (n * 1000000) \div (d \div 1000)

\* the rate column of an aggregated phase is computed from the sum of its
\* workers' local counters and the elapsed time
PoolRatesFromCounters ==
    \A kind \in PhaseKinds :
        (agg.phase = kind /\ Recorded(Header(kind))) =>
            ColumnValue(Header(kind)) = OpsPerSecond(LocalCounts, agg.d)

\* C14 as stated: every rate column follows the formula, the mixed-set column
\* with the writer's counter as the driver read it when recording.
C14_EveryRateFromFormula ==
    /\ PoolRatesFromCounters
    /\ (agg.phase = "testGetSet" /\ Recorded("Setmixed op/s")) =>
          ColumnValue("Setmixed op/s") = OpsPerSecond(agg.setCount, agg.d)

\* C14 amended: the rate columns of the worker pools follow the formula with n
\* the sum of the local counters; the mixed-set column holds -1 when the driver
\* read the writer's counter as 0 at the comparison, and otherwise follows the
\* formula with the counter as the driver reads it when recording.
C14_RatesWithSetSentinel ==
    /\ []PoolRatesFromCounters
    /\ [][(stage' = "rec0" /\ stage # "rec0") => setCount = 0]_vars
    /\ [][(stage \in {"rec0", "recN"} /\ record'.Values # record.Values) =>
            /\ Len(record'.Values) >= Len(record.Values) + 1
            /\ record'.Values[Len(record.Values) + 1] =
                  IF stage = "rec0" THEN -1 ELSE OpsPerSecond(setCount, agg.d)]_vars

C14_Witness ==
    /\ agg.phase = "testSet"
    /\ flags.c = 2
    /\ wcount[0] = 2 /\ wcount[1] = 1
    /\ Recorded("Set op/s")
    /\ ColumnValue("Set op/s") = 1500000

\* C15: the writer's Set calls carry the indices 0, 1, 2, ... in this order
\* (start at 0, one more per call, no restart), its count never exceeds the
\* number of distinct indices a Set was issued for, and while the writer
\* exists neither its index nor its count ever goes down.
C15_WriterIndexSequential ==
    /\ [](/\ \A k \in 1 .. Len(wrlog) : wrlog[k] = k - 1
          /\ setCount <= Cardinality({wrlog[k] : k \in 1 .. Len(wrlog)})
          /\ (wrpc = "select" => wri = Len(wrlog)))
    /\ [][(wrpc # "none" /\ wrpc' # "none") =>
            /\ wri' \in {wri, wri + 1}
            /\ setCount' \in {setCount, setCount + 1}
            /\ (Len(wrlog') > Len(wrlog) => wrlog'[Len(wrlog')] = wri)]_vars

C15_Witness ==
    /\ pcMain = "testGetSet"
    /\ stage = "run"
    /\ wrlog = <<0, 1>>
    /\ setCount = 2
    /\ wrpc = "select"

\* C16: a Get on a key the store does not hold, answered by the database
\* without an I/O failure, returns found = false and error = nil.
C16_AbsenceIsNotAnError ==
    (call.op = "Get" /\ call.key \notin db /\ ~call.ioErr) =>
        (call.found = FALSE /\ call.err = "nil")

\* C17: a Keys call either fails with NotSupported or returns exactly the
\* stored keys that start with the pattern the caller passed.
C17_KeysMatchCallerPrefix ==
    call.op = "Keys" =>
        \/ call.err = "NotSupported"
        \/ call.keys = {k \in db : HasPrefix(k, call.pattern)}

\* a reader of the mixed phase that has not yet left its loop
ReaderActive(w) == wpc[w] \in {"select", "op"}

\* C18: in the mixed phase the channel is closed only after every reader has
\* joined, the writer exists from the moment the readers do and is running
\* whenever a reader is in its loop, and the writer returns only on the closed
\* channel, never on the deadline.
C18_WriterOutlivesReaders ==
    /\ []((pcMain = "testGetSet" /\ stage # "call") =>
            /\ chClosed => (wg = 0 /\ \A w \in DOMAIN wpc : wpc[w] = "done")
            /\ (\E w \in DOMAIN wpc : ReaderActive(w)) => WriterRunning)
    /\ [](wrpc = "exited" => chClosed)
    /\ [][(chClosed' /\ ~chClosed) => \A w \in DOMAIN wpc : wpc[w] = "done"]_vars
    /\ [][(wrpc' = "exited" /\ wrpc # "exited") => chClosed]_vars

C18_Witness ==
    /\ pcMain = "testGetSet"
    /\ stage = "run"
    /\ ctxDone
    /\ flags.c = 2
    /\ wpc[0] = "done"
    /\ wpc[1] = "op"
    /\ wrpc = "set"
    /\ setCount = 1

\* C19: a point-get worker first targets its own id; after a hit it targets
\* the index c further, after a miss it targets its own id again.
C19_MissRestartsFromOwnId ==
    LogPhase = "testGet" =>
        \A w \in DOMAIN oplog :
            /\ oplog[w] # <<>> => oplog[w][1] = w
            /\ \A k \in 1 .. Len(oplog[w]) - 1 :
                  oplog[w][k + 1] =
                      IF outlog[w][k] THEN oplog[w][k] + flags.c ELSE w

RECURSIVE PointGetTargets(_, _, _, _)
\* the indices a point-get worker with id w targets, from index i on, when its
\* Get calls answer outs in turn
PointGetTargets(w, c, i, outs) ==
    IF outs = <<>> THEN <<i>>
    ELSE <<i>> \o PointGetTargets(w, c, Advance("testGet", i, w, c, Head(outs)),
                                  Tail(outs))

\* C20: a reader of the mixed phase targets the indices a point-get worker
\* with the same id and the same c targets under the same answers.
C20_ReadersFollowPointGet ==
    LogPhase = "testGetSet" =>
        \A w \in DOMAIN oplog :
            oplog[w] = SubSeq(PointGetTargets(w, flags.c, w, outlog[w]),
                              1, Len(oplog[w]))

\* the process ended inside or after a time-bounded phase
EndedPastBulkLoad ==
    pcMain = "exited" /\ exitCause \notin {"openErr", "psetErr"}

\* C21: a worker that has left its loop completed and counted every operation
\* it started, the deadline included; the join returns only when every worker
\* has left; and a process that got past the bulk load ends by going through
\* the Record Sink.
C21_PhasesEndAtTheSink ==
    /\ \A w \in DOMAIN wpc :
          wpc[w] = "done" =>
              /\ Len(outlog[w]) = Len(oplog[w])
              /\ counts[w] = Len(oplog[w])
    /\ agg.phase # "none" => \A w \in DOMAIN wpc : wpc[w] = "done"
    /\ EndedPastBulkLoad => exitCause \in {"done", "sinkErr"}

\* the lengths of the values the bulk load passed to PSet
BulkValueSizes == {psetLog[k][4] : k \in 1 .. Len(psetLog)}

\* C22: every value the point-set workers and the mixed-phase writer pass to
\* Set has the configured number of bytes, and so has every value of the bulk
\* load of the same run.
C22_ValuesHaveConfiguredSize ==
    /\ \A sz \in setlog : sz = flags.size
    /\ \A sz \in BulkValueSizes : sz = flags.size
    /\ \A a \in setlog, b \in BulkValueSizes : a = b

\* C23: the aggregation that follows a join never divides by zero, whatever
\* the total n >= 0: no process ends on that panic, every worker-pool phase
\* that has aggregated has its rate column in the Record, and the mixed phase
\* has returned with both of its columns.
C23_AggregationIsTotal ==
    /\ exitCause # "divZero"
    /\ \A kind \in PoolKinds : agg.phase = kind => Recorded(Header(kind))
    /\ (agg.phase = "testGetSet" /\ stage = "call") =>
          (Recorded("Setmixed op/s") /\ Recorded("Getmixed op/s"))

====
